---- MODULE Spec2Model ----
(***************************************************************************)
(* Model of kiddo's distance kernels (src/src/distance.rs): the portable   *)
(* metrics squared_euclidean and dot_product, the SSE4.1 kernels dot_sse   *)
(* and dot_sse_aligned, the dispatcher dot_product_sse and the wrappers    *)
(* dot_product_sse_3, dot_product_sse_4 and dot_product_sse_aligned.       *)
(*                                                                         *)
(* f32 values are modelled by the integers an f32 represents exactly; an   *)
(* arithmetic result is rounded to MANTISSA_DIGITS significant bits, ties  *)
(* to even, as IEEE-754 single precision does.  Memory is modelled by the  *)
(* objects a pointer can name: the two argument slices and the two padded  *)
(* temporaries of dot_product_sse_3, each with its contents, its liveness  *)
(* and its address modulo 16.                                              *)
(***************************************************************************)
EXTENDS Integers, Sequences, FiniteSets, TLC

\* Largest dimensionality K of a point handed to the portable metrics.
MaxK == 4
\* Largest dimensionality K of a point handed to the dispatcher.
MaxDispatchK == 5
\* Largest length of a slice handed to dot_product_sse_3 / dot_product_sse_4.
MaxLen == 4
\* f32::MANTISSA_DIGITS: significant bits of the f32 the kernels work on.
MANTISSA_DIGITS == 24
\* The smallest coordinate whose square reaches the f32 rounding threshold.
Big == 2 ^ (MANTISSA_DIGITS \div 2)
\* Coordinates the calls draw from: two small ones, whose arithmetic is
\* exact, and one whose products make the f32 sums round.
Vals == {0, 1, Big}

\* Lanes of a __m128 viewed as [f32; 4] (union SimdToArray).
Lanes == 1 .. 4

\* The inputs of the documented examples (doc tests of squared_euclidean and
\* the hand-computed vectors of the dot products).
Examples ==
  { << <<0, 0>>, <<0, 0>> >>,
    << <<0, 0>>, <<1, 1>> >>,
    << <<0, 0>>, <<1, 0>> >>,
    << <<1, 2>>, <<3, 4>> >>,
    << <<1, 2, 3, 4>>, <<1, 1, 1, 1>> >> }

\* Points of dimensionality k ([f32; k], or a slice of length k).
Points(k) == [1 .. k -> Vals]

\* Addresses of an f32 array modulo 16 (f32 is 4-byte aligned): one that
\* _mm_load_ps accepts and two that it does not.
Addrs == {0, 4, 8}

-----------------------------------------------------------------------------
(* f32 arithmetic *)

Abs(x) == IF x < 0 THEN -x ELSE x

\* The spacing of the f32 values around magnitude m.
RECURSIVE Ulp(_, _)
Ulp(m, u) == IF m < (2 ^ MANTISSA_DIGITS) * u THEN u ELSE Ulp(m, 2 * u)

\* Round to nearest f32, ties to even.
Round(x) ==
  LET m == Abs(x)
      u == Ulp(m, 1)
      q == m \div u
      r == m % u
      q1 == IF 2 * r > u \/ (2 * r = u /\ q % 2 = 1) THEN q + 1 ELSE q
  IN  IF x < 0 THEN -(q1 * u) ELSE q1 * u

FAdd(x, y) == Round(x + y)
FSub(x, y) == Round(x - y)
FMul(x, y) == Round(x * y)

-----------------------------------------------------------------------------
(* Iterator adaptors used by the portable metrics *)

Min(x, y) == IF x < y THEN x ELSE y

\* a.iter().zip(b.iter())
Zip(a, b) == [i \in 1 .. Min(Len(a), Len(b)) |-> <<a[i], b[i]>>]

\* The two reducers handed to fold: ::std::ops::Add::add and Sub::sub.
Apply(op, x, y) == IF op = "Add::add" THEN FAdd(x, y) ELSE FSub(x, y)

\* .fold(init, op): op(op(op(init, s[1]), s[2]), ...)
RECURSIVE Fold(_, _, _)
Fold(op, acc, s) ==
  IF s = <<>> THEN acc ELSE Fold(op, Apply(op, acc, Head(s)), Tail(s))

\* A fold that combines from the last element backwards.
RECURSIVE FoldRev(_, _, _)
FoldRev(op, acc, s) ==
  IF s = <<>> THEN acc
  ELSE FoldRev(op, Apply(op, acc, s[Len(s)]), SubSeq(s, 1, Len(s) - 1))

\* squared_euclidean summing from the last coordinate to the first.
squared_euclidean_rev(a, b) ==
  LET z == Zip(a, b)
      m == [i \in 1 .. Len(z) |->
              FMul(FSub(z[i][1], z[i][2]), FSub(z[i][1], z[i][2]))]
  IN  FoldRev("Add::add", 0, m)

squared_euclidean(a, b) ==
  LET z == Zip(a, b)
      m == [i \in 1 .. Len(z) |->
              FMul(FSub(z[i][1], z[i][2]), FSub(z[i][1], z[i][2]))]
  IN  Fold("Add::add", 0, m)

\* dot_product reducing with addition.
dot_product_add(a, b) ==
  LET z == Zip(a, b)
      m == [i \in 1 .. Len(z) |-> FMul(z[i][1], z[i][2])]
  IN  Fold("Add::add", 0, m)

dot_product(a, b) ==
  LET z == Zip(a, b)
      m == [i \in 1 .. Len(z) |-> FMul(z[i][1], z[i][2])]
  IN  Fold("Sub::sub", 0, m)

-----------------------------------------------------------------------------
(* SSE4.1 *)

\* Bit i (0-based) of an 8-bit immediate.
Bit(imm, i) == (imm \div (2 ^ i)) % 2

\* _mm_dp_ps(x, y, imm8): lane i is multiplied iff bit 4+i of imm8 is set;
\* the products are summed as (p0 + p1) + (p2 + p3); the sum goes to lane i
\* iff bit i of imm8 is set, the other lanes are 0.
mm_dp_ps(x, y, imm8) ==
  LET p == [i \in Lanes |->
              IF Bit(imm8, 4 + (i - 1)) = 1 THEN FMul(x[i], y[i]) ELSE 0]
      sum == FAdd(FAdd(p[1], p[2]), FAdd(p[3], p[4]))
  IN  [i \in Lanes |-> IF Bit(imm8, i - 1) = 1 THEN sum ELSE 0]

\* The immediate 0x71 of both kernels.
DpMask == 113
\* The register arithmetic of dot_sse: res.array[0] of _mm_dp_ps(.., 0x71).
dot_sse(a_mm, b_mm) == mm_dp_ps(a_mm, b_mm, DpMask)[1]

\* An aligned kernel whose immediate, 0xF1, multiplies all four lanes.
dot_sse_aligned_all(a_mm, b_mm) == mm_dp_ps(a_mm, b_mm, 241)[1]

\* The register arithmetic of dot_sse_aligned.
dot_sse_aligned(a_mm, b_mm) == mm_dp_ps(a_mm, b_mm, DpMask)[1]

-----------------------------------------------------------------------------
(* Memory *)

\* What a pointer can name: the two argument slices of a wrapper and the two
\* padded temporaries of dot_product_sse_3.
Objs == {"a", "b", "ta", "tb"}

NoObj == [val |-> <<>>, live |-> FALSE, addr |-> 0]
Zero4 == <<0, 0, 0, 0>>

\* A borrowed slice: live for the whole call.
Borrowed(s, addr) == [val |-> s, live |-> TRUE, addr |-> addr]

\* What a read of released storage can find besides what was stored there.
Garbage == { [i \in Lanes |-> Big] }

VARIABLES
  pc,       \* position of the running call, "idle" before and "done" after
  fn,       \* the public function that was called
  a, b,     \* its arguments
  mem,      \* the objects the pointers name
  ap, bp,   \* the pointers handed to the kernel
  a_mm, b_mm,   \* the registers the kernel loaded
  loads,    \* the SIMD loads performed so far, in order
  branch,   \* the branch dot_product_sse took
  ret,      \* the returned value
  status    \* "ok" (returned), "panic" (bounds check), "fault" (fatal fault)

vars == <<pc, fn, a, b, mem, ap, bp, a_mm, b_mm, loads, branch, ret, status>>

\* The record of one 128-bit load: what it read from and in which state.
LoadRecord(obj, kind) ==
  [obj |-> obj, kind |-> kind, live |-> mem[obj].live,
   len |-> Len(mem[obj].val), addr |-> mem[obj].addr]

\* The outcomes of a 128-bit load of four f32 from the start of obj.
\*   - released storage: its old contents or whatever replaced them;
\*   - fewer than four elements: the lanes past the end hold whatever follows
\*     the slice, or the access faults;
\*   - _mm_load_ps of an address that is not a multiple of 16: a fault
\*     (movaps) or the plain load (the load folded into an instruction that
\*     does not check alignment);
\*   - otherwise the four elements.
LoadOutcomes(obj, kind) ==
  LET m == mem[obj]
      n == Len(m.val)
      ok(r) == [fault |-> FALSE, reg |-> r]
      fault == [fault |-> TRUE, reg |-> Zero4]
  IN  IF ~m.live
        THEN { ok(r) : r \in {m.val} \cup Garbage }
      ELSE IF n < 4
        THEN {fault} \cup
             { ok([i \in Lanes |-> IF i <= n THEN m.val[i] ELSE g]) :
                 g \in Vals }
      ELSE IF kind = "load" /\ m.addr % 16 # 0
        THEN {fault, ok(SubSeq(m.val, 1, 4))}
      ELSE {ok(SubSeq(m.val, 1, 4))}

Init ==
  /\ pc = "idle"
  /\ fn = "none"
  /\ a = <<>>
  /\ b = <<>>
  /\ mem = [o \in Objs |-> NoObj]
  /\ ap = "null"
  /\ bp = "null"
  /\ a_mm = Zero4
  /\ b_mm = Zero4
  /\ loads = <<>>
  /\ branch = "none"
  /\ ret = 0
  /\ status = "none"

-----------------------------------------------------------------------------
(* The portable metrics *)

Run_squared_euclidean(x, y) ==
  /\ fn' = "squared_euclidean"
  /\ a' = x
  /\ b' = y
  /\ ret' = squared_euclidean(x, y)

Call_squared_euclidean ==
  /\ pc = "idle"
  /\ \/ \E k \in 0 .. MaxK : \E x \in Points(k), y \in Points(k) :
          Run_squared_euclidean(x, y)
     \/ \E p \in Examples : Run_squared_euclidean(p[1], p[2])
  /\ status' = "ok"
  /\ pc' = "done"
  /\ UNCHANGED <<mem, ap, bp, a_mm, b_mm, loads, branch>>

Run_dot_product(x, y) ==
  /\ fn' = "dot_product"
  /\ a' = x
  /\ b' = y
  /\ ret' = dot_product(x, y)

Call_dot_product ==
  /\ pc = "idle"
  /\ \/ \E k \in 0 .. MaxK : \E x \in Points(k), y \in Points(k) :
          Run_dot_product(x, y)
     \/ \E p \in Examples : Run_dot_product(p[1], p[2])
  /\ status' = "ok"
  /\ pc' = "done"
  /\ UNCHANGED <<mem, ap, bp, a_mm, b_mm, loads, branch>>

-----------------------------------------------------------------------------
(* The dispatcher *)

\* A dispatcher that sends every K of at least 4 to the 4-lane kernel.
dispatch_sloppy(K) ==
  IF K = 3 THEN "sse_3" ELSE IF K >= 4 THEN "sse_4" ELSE "portable"

\* The branch dot_product_sse takes for dimensionality K.
dispatch(K) ==
  IF K = 3 THEN "sse_3" ELSE IF K = 4 THEN "sse_4" ELSE "portable"

Run_dot_product_sse(x, y) ==
  LET K == Len(x)
      br == dispatch(K)
  IN  /\ fn' = "dot_product_sse"
      /\ a' = x
      /\ b' = y
      /\ branch' = br
      /\ IF br = "sse_3"
           THEN \* dot_product_sse_3(&a[0..3], &a[0..3])
                /\ mem' = [mem EXCEPT
                             !["a"] = Borrowed(SubSeq(x, 1, 3), 0),
                             !["b"] = Borrowed(SubSeq(x, 1, 3), 0)]
                /\ pc' = "sse_3_let_ap"
                /\ UNCHANGED <<ret, status>>
         ELSE IF br = "sse_4"
           THEN \* dot_product_sse_4(&a[0..4], &a[0..4])
                /\ mem' = [mem EXCEPT
                             !["a"] = Borrowed(SubSeq(x, 1, 4), 0),
                             !["b"] = Borrowed(SubSeq(x, 1, 4), 0)]
                /\ pc' = "sse_4_call"
                /\ UNCHANGED <<ret, status>>
         ELSE \* dot_product(a, b)
                /\ ret' = dot_product(x, y)
                /\ status' = "ok"
                /\ pc' = "done"
                /\ UNCHANGED mem

Call_dot_product_sse ==
  /\ pc = "idle"
  /\ \/ \E k \in 0 .. MaxDispatchK : \E x \in Points(k), y \in Points(k) :
          Run_dot_product_sse(x, y)
     \/ \E p \in Examples : Run_dot_product_sse(p[1], p[2])
  /\ UNCHANGED <<ap, bp, a_mm, b_mm, loads>>

-----------------------------------------------------------------------------
(* The slice wrappers *)

Run_dot_product_sse_3(x, y) ==
  /\ fn' = "dot_product_sse_3"
  /\ a' = x
  /\ b' = y
  /\ mem' = [mem EXCEPT !["a"] = Borrowed(x, 0), !["b"] = Borrowed(y, 0)]

Call_dot_product_sse_3 ==
  /\ pc = "idle"
  /\ \/ \E n \in 0 .. MaxLen, m \in 0 .. MaxLen :
          \E x \in Points(n), y \in Points(m) : Run_dot_product_sse_3(x, y)
     \/ \E p \in Examples : Run_dot_product_sse_3(p[1], p[2])
  /\ pc' = "sse_3_let_ap"
  /\ UNCHANGED <<ap, bp, a_mm, b_mm, loads, branch, ret, status>>

\* Whether the array built in `let p = [..].as_ptr();` is still allocated
\* once the statement has ended: a temporary of the initializer is dropped at
\* the end of the let statement.
temporary_outlives_let == FALSE

\* let ap = [a[0], a[1], a[2], 0f32].as_ptr();
sse_3_let_ap ==
  /\ pc = "sse_3_let_ap"
  /\ LET s == mem["a"].val
     IN  IF Len(s) < 3
           THEN /\ status' = "panic"
                /\ pc' = "done"
                /\ UNCHANGED <<mem, ap>>
           ELSE /\ mem' = [mem EXCEPT !["ta"] =
                             [val |-> <<s[1], s[2], s[3], 0>>,
                              live |-> temporary_outlives_let, addr |-> 0]]
                /\ ap' = "ta"
                /\ pc' = "sse_3_let_bp"
                /\ UNCHANGED status
  /\ UNCHANGED <<fn, a, b, bp, a_mm, b_mm, loads, branch, ret>>

\* let bp = [b[0], b[1], b[2], 0f32].as_ptr();
sse_3_let_bp ==
  /\ pc = "sse_3_let_bp"
  /\ LET s == mem["b"].val
     IN  IF Len(s) < 3
           THEN /\ status' = "panic"
                /\ pc' = "done"
                /\ UNCHANGED <<mem, bp>>
           ELSE /\ mem' = [mem EXCEPT !["tb"] =
                             [val |-> <<s[1], s[2], s[3], 0>>,
                              live |-> temporary_outlives_let, addr |-> 0]]
                /\ bp' = "tb"
                /\ pc' = "dot_sse_load_a"
                /\ UNCHANGED status
  /\ UNCHANGED <<fn, a, b, ap, a_mm, b_mm, loads, branch, ret>>

Run_dot_product_sse_4(x, y) ==
  /\ fn' = "dot_product_sse_4"
  /\ a' = x
  /\ b' = y
  /\ mem' = [mem EXCEPT !["a"] = Borrowed(x, 0), !["b"] = Borrowed(y, 0)]

Call_dot_product_sse_4 ==
  /\ pc = "idle"
  /\ \/ \E n \in 0 .. MaxLen, m \in 0 .. MaxLen :
          \E x \in Points(n), y \in Points(m) : Run_dot_product_sse_4(x, y)
     \/ \E p \in Examples : Run_dot_product_sse_4(p[1], p[2])
  /\ pc' = "sse_4_call"
  /\ UNCHANGED <<ap, bp, a_mm, b_mm, loads, branch, ret, status>>

\* unsafe { dot_sse(a.as_ptr(), b.as_ptr()) }
sse_4_call ==
  /\ pc = "sse_4_call"
  /\ ap' = "a"
  /\ bp' = "b"
  /\ pc' = "dot_sse_load_a"
  /\ UNCHANGED <<fn, a, b, mem, a_mm, b_mm, loads, branch, ret, status>>

-----------------------------------------------------------------------------
(* The unaligned kernel dot_sse *)

\* let a_mm = _mm_loadu_ps(a);
dot_sse_load_a ==
  /\ pc = "dot_sse_load_a"
  /\ loads' = Append(loads, LoadRecord(ap, "loadu"))
  /\ \E o \in LoadOutcomes(ap, "loadu") :
       IF o.fault
         THEN status' = "fault" /\ pc' = "done" /\ UNCHANGED a_mm
         ELSE a_mm' = o.reg /\ pc' = "dot_sse_load_b" /\ UNCHANGED status
  /\ UNCHANGED <<fn, a, b, mem, ap, bp, b_mm, branch, ret>>

\* let b_mm = _mm_loadu_ps(b);
dot_sse_load_b ==
  /\ pc = "dot_sse_load_b"
  /\ loads' = Append(loads, LoadRecord(bp, "loadu"))
  /\ \E o \in LoadOutcomes(bp, "loadu") :
       IF o.fault
         THEN status' = "fault" /\ pc' = "done" /\ UNCHANGED b_mm
         ELSE b_mm' = o.reg /\ pc' = "dot_sse_dp" /\ UNCHANGED status
  /\ UNCHANGED <<fn, a, b, mem, ap, bp, a_mm, branch, ret>>

\* SimdToArray { simd: _mm_dp_ps(a_mm, b_mm, 0x71) }.array[0]
dot_sse_dp ==
  /\ pc = "dot_sse_dp"
  /\ ret' = dot_sse(a_mm, b_mm)
  /\ status' = "ok"
  /\ pc' = "done"
  /\ UNCHANGED <<fn, a, b, mem, ap, bp, a_mm, b_mm, loads, branch>>

-----------------------------------------------------------------------------
(* The aligned wrapper and kernel *)

\* A wrapper that checks the addresses and falls back to the unaligned kernel.
aligned_entry_guarded(addrA, addrB) ==
  IF addrA % 16 = 0 /\ addrB % 16 = 0
    THEN "dot_sse_aligned_load_a" ELSE "dot_sse_load_a"

\* Where dot_product_sse_aligned continues for arrays at the given addresses:
\* unsafe { dot_sse_aligned(ap, bp) }, whatever the addresses.
aligned_entry(addrA, addrB) == "dot_sse_aligned_load_a"

Run_dot_product_sse_aligned(x, y, addrA, addrB) ==
  /\ fn' = "dot_product_sse_aligned"
  /\ a' = x
  /\ b' = y
  /\ mem' = [mem EXCEPT !["a"] = Borrowed(x, addrA),
                        !["b"] = Borrowed(y, addrB)]
  /\ pc' = aligned_entry(addrA, addrB)

Call_dot_product_sse_aligned ==
  /\ pc = "idle"
  /\ \E addrA \in Addrs, addrB \in Addrs :
       \/ \E x \in Points(4), y \in Points(4) :
            Run_dot_product_sse_aligned(x, y, addrA, addrB)
       \/ \E p \in { q \in Examples : Len(q[1]) = 4 } :
            Run_dot_product_sse_aligned(p[1], p[2], addrA, addrB)
  /\ ap' = "a"
  /\ bp' = "b"
  /\ UNCHANGED <<a_mm, b_mm, loads, branch, ret, status>>

\* let a_mm = _mm_load_ps(a);
dot_sse_aligned_load_a ==
  /\ pc = "dot_sse_aligned_load_a"
  /\ loads' = Append(loads, LoadRecord(ap, "load"))
  /\ \E o \in LoadOutcomes(ap, "load") :
       IF o.fault
         THEN status' = "fault" /\ pc' = "done" /\ UNCHANGED a_mm
         ELSE a_mm' = o.reg /\ pc' = "dot_sse_aligned_load_b"
              /\ UNCHANGED status
  /\ UNCHANGED <<fn, a, b, mem, ap, bp, b_mm, branch, ret>>

\* let b_mm = _mm_load_ps(b);
dot_sse_aligned_load_b ==
  /\ pc = "dot_sse_aligned_load_b"
  /\ loads' = Append(loads, LoadRecord(bp, "load"))
  /\ \E o \in LoadOutcomes(bp, "load") :
       IF o.fault
         THEN status' = "fault" /\ pc' = "done" /\ UNCHANGED b_mm
         ELSE b_mm' = o.reg /\ pc' = "dot_sse_aligned_dp"
              /\ UNCHANGED status
  /\ UNCHANGED <<fn, a, b, mem, ap, bp, a_mm, branch, ret>>

\* SimdToArray { simd: _mm_dp_ps(a_mm, b_mm, 0x71) }.array[0]
dot_sse_aligned_dp ==
  /\ pc = "dot_sse_aligned_dp"
  /\ ret' = dot_sse_aligned(a_mm, b_mm)
  /\ status' = "ok"
  /\ pc' = "done"
  /\ UNCHANGED <<fn, a, b, mem, ap, bp, a_mm, b_mm, loads, branch>>

-----------------------------------------------------------------------------

\* The call is over; the next one starts from scratch.
Return ==
  /\ pc = "done"
  /\ pc' = "idle"
  /\ fn' = "none"
  /\ a' = <<>>
  /\ b' = <<>>
  /\ mem' = [o \in Objs |-> NoObj]
  /\ ap' = "null"
  /\ bp' = "null"
  /\ a_mm' = Zero4
  /\ b_mm' = Zero4
  /\ loads' = <<>>
  /\ branch' = "none"
  /\ ret' = 0
  /\ status' = "none"

\* The calls of the portable metrics.
NextPortable ==
  \/ Call_squared_euclidean
  \/ Call_dot_product
  \/ Return

SpecPortable == Init /\ [][NextPortable]_vars

\* The calls of the SSE functions.
Next ==
  \/ Call_dot_product_sse
  \/ Call_dot_product_sse_3
  \/ sse_3_let_ap
  \/ sse_3_let_bp
  \/ Call_dot_product_sse_4
  \/ sse_4_call
  \/ dot_sse_load_a
  \/ dot_sse_load_b
  \/ dot_sse_dp
  \/ Call_dot_product_sse_aligned
  \/ dot_sse_aligned_load_a
  \/ dot_sse_aligned_load_b
  \/ dot_sse_aligned_dp
  \/ Return

Spec == Init /\ [][Next]_vars

TypeOK ==
  /\ pc \in {"idle", "done", "sse_3_let_ap", "sse_3_let_bp", "sse_4_call",
             "dot_sse_load_a", "dot_sse_load_b", "dot_sse_dp",
             "dot_sse_aligned_load_a", "dot_sse_aligned_load_b",
             "dot_sse_aligned_dp"}
  /\ status \in {"none", "ok", "panic", "fault"}
  /\ branch \in {"none", "sse_3", "sse_4", "portable"}
  /\ Len(loads) <= 2
  /\ (pc = "done") = (status # "none")

-----------------------------------------------------------------------------
(* Properties *)

Done == pc = "done"

\* a[1]*b[1] + ... + a[n]*b[n] subtracted from 0 one product at a time.
RECURSIVE SubChain(_, _, _)
SubChain(x, y, n) ==
  IF n = 0 THEN 0 ELSE FSub(SubChain(x, y, n - 1), FMul(x[n], y[n]))

\* a[1]*b[1] + ... + a[n]*b[n] added to 0 one product at a time.
RECURSIVE AddChain(_, _, _)
AddChain(x, y, n) ==
  IF n = 0 THEN 0 ELSE FAdd(AddChain(x, y, n - 1), FMul(x[n], y[n]))

\* (a[1]-b[1])^2 + ... + (a[n]-b[n])^2 added to 0 one square at a time.
RECURSIVE SqChain(_, _, _)
SqChain(x, y, n) ==
  IF n = 0 THEN 0
  ELSE FAdd(SqChain(x, y, n - 1),
            FMul(FSub(x[n], y[n]), FSub(x[n], y[n])))

\* The conventional dot product of two 4-element points, all four lanes, in
\* f32 arithmetic.
Dot4(x, y) ==
  FAdd(FAdd(FMul(x[1], y[1]), FMul(x[2], y[2])),
       FAdd(FMul(x[3], y[3]), FMul(x[4], y[4])))

Misaligned == mem["a"].addr % 16 # 0 \/ mem["b"].addr % 16 # 0

\* C1: for 4-element a and b, dot_product_sse_4(a, b) returns the
\* conventional dot product a[0]*b[0] + a[1]*b[1] + a[2]*b[2] + a[3]*b[3];
\* a = [1,2,3,4], b = [1,1,1,1] gives 10.
C1_Sse4IsTrueDot ==
  (fn = "dot_product_sse_4" /\ Done /\ Len(a) = 4 /\ Len(b) = 4)
    => (status = "ok" /\ ret = Dot4(a, b))

\* C2: for K = 4 the dispatcher returns what dot_product_sse_4(a, b) returns
\* on the two given points, the unaligned kernel applied to a and b.
C2_Dispatch4Delegates ==
  (fn = "dot_product_sse" /\ Done /\ Len(a) = 4)
    => (status = "ok" /\ ret = dot_sse(a, b))

\* C3: for K = 3 the dispatcher returns a[0]*a[0] + a[1]*a[1] + a[2]*a[2],
\* whatever b is.
C3_Dispatch3SelfDot ==
  (fn = "dot_product_sse" /\ Done /\ Len(a) = 3)
    => (status = "ok" /\ ret = AddChain(a, a, 3))

\* C4: dot_product(a, b) is 0 - a[0]*b[0] - ... - a[K-1]*b[K-1], subtracted
\* in index order, which is the negation of the dot product; ([1,2],[3,4])
\* gives -11 and K = 0 gives 0.
C4_DotProductSubFold ==
  (fn = "dot_product" /\ Done)
    => /\ status = "ok"
       /\ ret = SubChain(a, b, Len(a))
       /\ ret = -AddChain(a, b, Len(a))
       /\ (a = <<1, 2>> /\ b = <<3, 4>>) => ret = -11
       /\ Len(a) = 0 => ret = 0

C4_Witness ==
  fn = "dot_product" /\ Done /\ a = <<1, 2>> /\ b = <<3, 4>> /\ ret = -11

\* C5: a call of dot_product_sse takes exactly one branch, chosen by K alone:
\* the padded branch iff K = 3, the 4-lane branch iff K = 4, and otherwise the
\* portable branch, which returns dot_product(a, b) and loads nothing.
C5_DispatchExclusive ==
  /\ (fn # "dot_product_sse") => branch = "none"
  /\ (fn = "dot_product_sse") =>
       /\ branch \in {"sse_3", "sse_4", "portable"}
       /\ branch = "sse_3" <=> Len(a) = 3
       /\ branch = "sse_4" <=> Len(a) = 4
       /\ branch = "portable" <=> Len(a) \notin {3, 4}
       /\ branch = "sse_3" =>
            /\ pc \in {"sse_3_let_ap", "sse_3_let_bp", "dot_sse_load_a",
                       "dot_sse_load_b", "dot_sse_dp", "done"}
            /\ ap \in {"null", "ta"} /\ bp \in {"null", "tb"}
       /\ branch = "sse_4" =>
            /\ pc \in {"sse_4_call", "dot_sse_load_a", "dot_sse_load_b",
                       "dot_sse_dp", "done"}
            /\ ap \in {"null", "a"} /\ bp \in {"null", "b"}
       /\ branch = "portable" =>
            /\ Done /\ status = "ok"
            /\ ret = SubChain(a, b, Len(a))
            /\ loads = <<>>
            /\ ap = "null" /\ bp = "null"

C5_Witness ==
  /\ fn = "dot_product_sse" /\ Done /\ Len(a) = 5 /\ branch = "portable"
  /\ ret # 0 /\ loads = <<>>

\* C6: squared_euclidean(a, b) is the sum of the (a[i]-b[i])^2 accumulated
\* from index 0 upwards starting from zero; ([0,0],[0,0]) gives 0,
\* ([0,0],[1,1]) gives 2 and ([0,0],[1,0]) gives 1.
C6_SquaredEuclideanSum ==
  (fn = "squared_euclidean" /\ Done)
    => /\ status = "ok"
       /\ ret = SqChain(a, b, Len(a))
       /\ (a = <<0, 0>> /\ b = <<0, 0>>) => ret = 0
       /\ (a = <<0, 0>> /\ b = <<1, 1>>) => ret = 2
       /\ (a = <<0, 0>> /\ b = <<1, 0>>) => ret = 1

C6_Witness ==
  fn = "squared_euclidean" /\ Done /\ a = <<0, 0>> /\ b = <<1, 1>> /\ ret = 2

\* C7: for 4-element a and b at addresses that are multiples of 16,
\* dot_product_sse_aligned(a, b) returns what dot_product_sse_4(a, b)
\* returns: both return the unaligned kernel's value on a and b.
C7_AlignedEqualsUnaligned ==
  /\ (fn = "dot_product_sse_aligned" /\ Done /\ ~Misaligned)
       => (status = "ok" /\ ret = dot_sse(a, b))
  /\ (fn = "dot_product_sse_4" /\ Done /\ Len(a) = 4 /\ Len(b) = 4)
       => (status = "ok" /\ ret = dot_sse(a, b))

C7_Witness ==
  /\ fn = "dot_product_sse_aligned" /\ Done /\ ~Misaligned
  /\ a = <<1, 2, 3, 4>> /\ b = <<1, 1, 1, 1>> /\ status = "ok" /\ ret = 6

\* C8 as stated: a call of dot_product_sse_aligned whose a or b is not at a
\* multiple of 16 reaches the aligned load and ends there in a fatal fault.
C8_MisalignedFaults ==
  (fn = "dot_product_sse_aligned" /\ Done /\ Misaligned)
    => /\ status = "fault"
       /\ \A i \in DOMAIN loads : loads[i].kind = "load"

\* C8 as amended: dot_product_sse_aligned has no alignment guard.  Every load
\* it performs is the aligned load, at the unchanged address of a or of b; a
\* call whose a or b is not at a multiple of 16 reaches the aligned load with
\* that address, and ends either in a fatal fault or with the aligned
\* kernel's value, never with a bounds panic, an error value or the
\* unaligned kernel.
C8_NoAlignmentGuard ==
  (fn = "dot_product_sse_aligned") =>
    /\ pc \in {"dot_sse_aligned_load_a", "dot_sse_aligned_load_b",
               "dot_sse_aligned_dp", "done"}
    /\ ap = "a" /\ bp = "b"
    /\ \A i \in DOMAIN loads :
         /\ loads[i].kind = "load"
         /\ loads[i].obj = (IF i = 1 THEN "a" ELSE "b")
         /\ loads[i].addr = mem[loads[i].obj].addr
    /\ (Done /\ Misaligned) =>
         /\ \E i \in DOMAIN loads : loads[i].addr % 16 # 0
         /\ status \in {"fault", "ok"}
         /\ status = "ok" => ret = dot_sse_aligned(a, b)

C8_Witness ==
  /\ fn = "dot_product_sse_aligned" /\ Done /\ Misaligned
  /\ status = "fault"
  /\ Len(loads) = 2 /\ loads[2].addr % 16 # 0

\* C9: in dot_product_sse_3 the padded temporaries are still allocated when
\* dot_sse loads from ap and bp: no load reads released storage.
C9_TemporariesLiveAtLoad ==
  \A i \in DOMAIN loads :
    loads[i].obj \in {"ta", "tb"} => loads[i].live

\* C10: the slice wrappers never load an element outside their argument
\* slices: a load from a slice finds its four elements inside it, and a call
\* with a slice shorter than the wrapper needs (3 for dot_product_sse_3, 4 for
\* dot_product_sse_4) stops with a bounds panic before any load.
C10_NoLoadOutsideSlice ==
  /\ \A i \in DOMAIN loads :
       loads[i].obj \in {"a", "b"} => loads[i].len >= 4
  /\ (fn = "dot_product_sse_3" /\ Done /\ (Len(a) < 3 \/ Len(b) < 3))
       => (status = "panic" /\ loads = <<>>)
  /\ (fn = "dot_product_sse_4" /\ Done /\ (Len(a) < 4 \/ Len(b) < 4))
       => (status = "panic" /\ loads = <<>>)

====
